---- MODULE Spec2Model ----
(***************************************************************************)
(* Model of the SJoK Studio audio analyser: the App component's analysis   *)
(* session (file selection, base64 encoding, remote analysis) and the      *)
(* Visualizer component's audio graph and render loop.                     *)
(*                                                                         *)
(* JavaScript values that may be null are modelled as sequences of length  *)
(* 0 (null) or 1 (the value).  A parsed JSON object is the set of its own  *)
(* properties.  A media type is a sequence of characters.                  *)
(***************************************************************************)
EXTENDS Integers, Sequences, FiniteSets, TLC

(* ---------------- bounds of the model ---------------- *)

\* number of accepted file selections (concurrent handleFileChange runs)
MaxSelections == 2

\* number of requestAnimationFrame registrations handed out
MaxFrames == 3

(* ---------------- program constants ---------------- *)

MiB == 1024 * 1024

MAX_FILE_SIZE == 10 * 1024 * 1024

\* AnalysisStatus
IDLE == "IDLE"
UPLOADING == "UPLOADING"
ANALYZING == "ANALYZING"
COMPLETED == "COMPLETED"
ERROR == "ERROR"

AnalysisStatus == {IDLE, UPLOADING, ANALYZING, COMPLETED, ERROR}

\* the three messages of App (ASCII renderings of the source's literals)
ErrFileTooLarge == "file too large, upload an audio file under 10MB"
ErrUnsupportedType == "unsupported format, use MP3, WAV, FLAC or OGG"
ErrReadFailedEmpty == ""
ErrReadFailed == "file read failed"
ErrServiceUnavailable == "analysis service unavailable, retry later"
ErrNoResponse == "No response from Gemini."
ErrSyntax == "SyntaxError: Unexpected end of JSON input"

(* ---------------- nullable values ---------------- *)

Null == <<>>

Some(x) == <<x>>

IsNull(v) == Len(v) = 0

Val(v) == v[1]

(* ---------------- files the user can pick ---------------- *)

AudioPrefix == <<"a", "u", "d", "i", "o", "/">>

TypeMpeg == AudioPrefix \o <<"m", "p", "e", "g">>
TypeWav == AudioPrefix \o <<"w", "a", "v">>
TypeVideo == <<"v", "i", "d", "e", "o", "/", "m", "p", "4">>
TypeBare == <<"a", "u", "d", "i", "o">>
TypeUpper == <<"A", "u", "d", "i", "o", "/", "w", "a", "v">>
TypeNone == <<>>

Files ==
    { [name |-> "track.mp3", size |-> 3 * MiB, type |-> TypeMpeg, bytes |-> "b1"],
      [name |-> "exact.wav", size |-> 10 * MiB, type |-> TypeWav, bytes |-> "b2"],
      [name |-> "over.wav", size |-> 10 * MiB + 1, type |-> TypeWav, bytes |-> "b3"],
      [name |-> "big.wav", size |-> 12 * MiB, type |-> TypeWav, bytes |-> "b4"],
      [name |-> "clip.mp4", size |-> 3 * MiB, type |-> TypeVideo, bytes |-> "b5"],
      [name |-> "bare", size |-> 3 * MiB, type |-> TypeBare, bytes |-> "b6"],
      [name |-> "upper.wav", size |-> 3 * MiB, type |-> TypeUpper, bytes |-> "b7"],
      [name |-> "unknown", size |-> 10 * MiB, type |-> TypeNone, bytes |-> "b8"],
      [name |-> "movie.mp4", size |-> 12 * MiB, type |-> TypeVideo, bytes |-> "b9"] }

\* String.prototype.startsWith
startsWith(s, p) == Len(s) >= Len(p) /\ SubSeq(s, 1, Len(p)) = p

\* the size check with the limit itself refused
TooLargeInclusive(file) == file.size >= MAX_FILE_SIZE

\* handleFileChange, first check: the file is over the size limit
TooLarge(file) == file.size > MAX_FILE_SIZE

\* the type check with the prefix "audio" instead of "audio/"
IsAudioTypeNoSlash(file) == startsWith(file.type, <<"a", "u", "d", "i", "o">>)

\* handleFileChange, second check: the declared type is an audio type
IsAudioType(file) == startsWith(file.type, AudioPrefix)

(* ---------------- fileToBase64 ---------------- *)

\* FileReader.readAsDataURL: "data:<type>;base64,<payload>", kept as the
\* parts that split(',') yields
readAsDataURL(file) == << <<"data:", file.type, ";base64">>, <<file.bytes>> >>

\* reader.onload: result.split(',')[1]
fileToBase64(file) == readAsDataURL(file)[2]

(* ---------------- the remote analyzer's responses ---------------- *)

LBrace == [tok |-> "{", name |-> "", type |-> "", lit |-> ""]
RBrace == [tok |-> "}", name |-> "", type |-> "", lit |-> ""]
Member(n, t, l) == [tok |-> "member", name |-> n, type |-> t, lit |-> l]

MBpm(l) == Member("bpm", "number", l)
MKey(l) == Member("key", "string", l)
MMood(l) == Member("mood", "string", l)
MExpl(l) == Member("explanation", "string", l)

TextFull == <<LBrace, MBpm("128"), MKey("A Minor"), MMood("soft"), MExpl("minor key"), RBrace>>
TextOther == <<LBrace, MKey("C Major"), MBpm("90"), MMood("bright"), MExpl("major key"), RBrace>>
TextNoBpm == <<LBrace, MKey("A Minor"), MMood("soft"), MExpl("minor key"), RBrace>>
TextNoExpl == <<LBrace, MBpm("128"), MKey("A Minor"), MMood("soft"), RBrace>>
TextTruncated == <<LBrace, MBpm("128")>>
TextEmpty == <<>>

\* what ai.models.generateContent settles with: fulfilled with a response
\* whose text is `text`, or rejected with an error whose message is `message`
Fulfilled(text) == [ok |-> TRUE, text |-> text, message |-> ""]
Rejected(message) == [ok |-> FALSE, text |-> <<>>, message |-> message]

Responses ==
    { Fulfilled(TextFull), Fulfilled(TextOther), Fulfilled(TextNoBpm),
      Fulfilled(TextNoExpl), Fulfilled(TextTruncated), Fulfilled(TextEmpty),
      Rejected("503 UNAVAILABLE"), Rejected("") }

\* the number a JSON number literal denotes
NumberOf(lit) ==
    CASE lit = "128" -> 128
      [] lit = "90" -> 90
      [] OTHER -> 0

\* one own property of a parsed object
Property(m) ==
    [name |-> m.name, type |-> m.type,
     num |-> IF m.type = "number" THEN NumberOf(m.lit) ELSE 0,
     str |-> IF m.type = "string" THEN m.lit ELSE ""]

\* JSON.parse accepts the text
WellFormed(text) ==
    /\ Len(text) >= 2
    /\ text[1] = LBrace
    /\ text[Len(text)] = RBrace
    /\ \A i \in 2..(Len(text) - 1) : text[i].tok = "member"

\* JSON.parse of a well-formed object text: its own properties, a repeated
\* name keeping its last value
JSONparse(text) ==
    { Property(text[i]) : i \in { j \in 2..(Len(text) - 1) :
          \A k \in (j + 1)..(Len(text) - 1) : text[k].name # text[j].name } }

\* analyzeAudioWithGemini: what the promise settles with for a response
analyzeAudioWithGemini(resp) ==
    IF ~resp.ok
    THEN [threw |-> TRUE, message |-> resp.message, result |-> {}]
    ELSE IF Len(resp.text) = 0
    THEN [threw |-> TRUE, message |-> ErrNoResponse, result |-> {}]
    ELSE IF ~WellFormed(resp.text)
    THEN [threw |-> TRUE, message |-> ErrSyntax, result |-> {}]
    ELSE [threw |-> FALSE, message |-> "", result |-> JSONparse(resp.text)]

\* obj.name, as a set of at most one property
Get(obj, n) == { p \in obj : p.name = n }

(* ---------------- Visualizer ---------------- *)

\* a graph built by the audioUrl effect: the Audio element (src, paused),
\* the AudioContext (state, closeRequested) and whether
\* createMediaElementSource bound the element to the analyser
NewGraph(url, ctxState, bound) ==
    [url |-> url, src |-> url, paused |-> TRUE,
     state |-> ctxState, closeRequested |-> FALSE, bound |-> bound]

\* the component before it is mounted: every ref holds null (0)
VizInit ==
    [mounted |-> FALSE, tornDown |-> FALSE, graphs |-> <<>>,
     audioRef |-> 0, audioContextRef |-> 0, analyserRef |-> 0,
     animationFrameRef |-> 0, rafQueue |-> {}, nextRafId |-> 1,
     draws |-> <<>>]

\* a graph that has not been asked to close
IsOpen(g) == ~g.closeRequested /\ g.state # "closed"

OpenGraphs(v) == { i \in 1..Len(v.graphs) : IsOpen(v.graphs[i]) }

\* the audioUrl effect's body: a new Audio element, AudioContext and
\* analyser, stored in the refs
AudioUrlEffect(v, url, ctxState, bound) ==
    LET n == Len(v.graphs) + 1 IN
    [v EXCEPT !.graphs = Append(v.graphs, NewGraph(url, ctxState, bound)),
              !.audioRef = n, !.audioContextRef = n, !.analyserRef = n]

\* the cleanup without its ctx.close()
AudioUrlCleanupNoClose(v, g) ==
    [v EXCEPT !.graphs[g].paused = TRUE, !.graphs[g].src = 0]

\* a cleanup that stops at a source node that was never created
AudioUrlCleanupNeedsSource(v, g) ==
    IF v.graphs[g].bound
    THEN [v EXCEPT !.graphs[g].paused = TRUE,
                   !.graphs[g].src = 0,
                   !.graphs[g].closeRequested =
                       IF v.graphs[g].state # "closed" THEN TRUE ELSE @]
    ELSE v

\* the audioUrl effect's cleanup for the graph g it built
AudioUrlCleanup(v, g) ==
    [v EXCEPT !.graphs[g].paused = TRUE,
              !.graphs[g].src = 0,
              !.graphs[g].closeRequested =
                  IF v.graphs[g].state # "closed" THEN TRUE ELSE @]

\* renderFrame without storing the registration in animationFrameRef
renderFrameNoRef(v, loop) ==
    [v EXCEPT !.rafQueue = @ \cup {[id |-> v.nextRafId, loop |-> loop]},
              !.nextRafId = @ + 1,
              !.draws = Append(@, loop)]

\* renderFrame of the loop started for graph `loop`: registers itself for
\* the next frame, then draws the spectrum
renderFrame(v, loop) ==
    [v EXCEPT !.animationFrameRef = v.nextRafId,
              !.rafQueue = @ \cup {[id |-> v.nextRafId, loop |-> loop]},
              !.nextRafId = @ + 1,
              !.draws = Append(@, loop)]

\* draw: starts a render loop unless the canvas or the analyser is missing
draw(v) ==
    IF ~v.mounted \/ v.analyserRef = 0 THEN v ELSE renderFrame(v, v.analyserRef)

\* cancelAnimationFrame
cancelAnimationFrame(v, id) ==
    [v EXCEPT !.rafQueue = { r \in @ : r.id # id }]

\* the else branch without its cancelAnimationFrame
StopPlaybackNoCancel(v) == [v EXCEPT !.graphs[v.audioRef].paused = TRUE]

\* the isPlaying effect's else branch: pause and cancel the pending frame
StopPlayback(v) ==
    LET v1 == [v EXCEPT !.graphs[v.audioRef].paused = TRUE] IN
    IF v1.animationFrameRef # 0
    THEN cancelAnimationFrame(v1, v1.animationFrameRef)
    ELSE v1

\* the isPlaying effect
IsPlayingEffect(v, isPlaying) ==
    IF v.audioRef = 0 \/ v.audioContextRef = 0 THEN v
    ELSE IF isPlaying
    THEN draw([v EXCEPT !.graphs[v.audioContextRef].state =
                            IF @ = "suspended" THEN "running" ELSE @,
                        !.graphs[v.audioRef].paused = FALSE])
    ELSE StopPlayback(v)

\* React's commit of the Visualizer after App rendered audioUrl and
\* isPlaying: cleanups of the effects whose dependency changed, then those
\* effects in source order; on mount both effects run
Commit(v, oldUrl, url, oldPlaying, isPlaying, ctxState, bound) ==
    IF v.tornDown \/ url = 0 THEN v
    ELSE IF ~v.mounted
    THEN IsPlayingEffect(
             AudioUrlEffect([v EXCEPT !.mounted = TRUE], url, ctxState, bound),
             isPlaying)
    ELSE LET v1 == IF url # oldUrl
                   THEN AudioUrlEffect(AudioUrlCleanup(v, v.audioRef),
                                       url, ctxState, bound)
                   ELSE v
         IN IF isPlaying # oldPlaying THEN IsPlayingEffect(v1, isPlaying) ELSE v1

(* ---------------- App ---------------- *)

VARIABLES
    status,       \* useState<AnalysisStatus>
    fileData,     \* useState<FileData | null>
    analysis,     \* useState<MusicAnalysis | null>
    error,        \* useState<string | null>
    isPlaying,    \* useState(false)
    dialogOpen,   \* the file input's picker is showing
    tasks,        \* the runs of handleFileChange, in selection order
    viz           \* the Visualizer instance

vars == <<status, fileData, analysis, error, isPlaying, dialogOpen, tasks,
          viz>>

\* a run that issues its remote call before the file is encoded
NewTaskCallsFirst(file) ==
    [file |-> file, pc |-> "encoding", log |-> <<UPLOADING>>, calls |-> 1,
     url |-> 0]

\* a run of handleFileChange that passed validation; pc is where it is
\* suspended or how it ended, log the values it has called setStatus with,
\* calls the remote calls it issued, url the locator it created (0: none)
NewTask(file) ==
    [file |-> file, pc |-> "encoding", log |-> <<UPLOADING>>, calls |-> 0,
     url |-> 0]

\* the audioUrl prop App passes: fileData.url
UrlOf(fd) == IF IsNull(fd) THEN 0 ELSE Val(fd).url

Init ==
    /\ status = IDLE
    /\ fileData = Null
    /\ analysis = Null
    /\ error = Null
    /\ isPlaying = FALSE
    /\ dialogOpen = FALSE
    /\ tasks = <<>>
    /\ viz = VizInit

AppAlive == ~viz.tornDown

\* triggerUpload: a click on the upload area, which ignores pointer events
\* while the status is ANALYZING
triggerUpload ==
    /\ AppAlive
    /\ status # ANALYZING
    /\ ~dialogOpen
    /\ dialogOpen' = TRUE
    /\ UNCHANGED <<status, fileData, analysis, error, isPlaying, tasks,
                   viz>>

\* handleFileChange with no file chosen
handleFileChangeNoFile ==
    /\ AppAlive
    /\ dialogOpen
    /\ dialogOpen' = FALSE
    /\ UNCHANGED <<status, fileData, analysis, error, isPlaying, tasks,
                   viz>>

\* handleFileChange up to its first await
handleFileChange(file) ==
    /\ AppAlive
    /\ dialogOpen
    /\ dialogOpen' = FALSE
    /\ IF TooLarge(file)
       THEN /\ error' = Some(ErrFileTooLarge)
            /\ UNCHANGED <<status, fileData, analysis, isPlaying, tasks,
                           viz>>
       ELSE IF ~IsAudioType(file)
       THEN /\ error' = Some(ErrUnsupportedType)
            /\ UNCHANGED <<status, fileData, analysis, isPlaying, tasks,
                           viz>>
       ELSE /\ Len(tasks) < MaxSelections
            /\ error' = Null
            /\ status' = UPLOADING
            /\ analysis' = Null
            /\ isPlaying' = FALSE
            /\ tasks' = Append(tasks, NewTask(file))
            /\ viz' = Commit(viz, UrlOf(fileData), UrlOf(fileData),
                             isPlaying, FALSE, "suspended", TRUE)
            /\ UNCHANGED fileData

\* the locators URL.createObjectURL has returned
CreatedLocators(ts) == { ts[i].url : i \in { j \in 1..Len(ts) : ts[j].url # 0 } }

\* the locators passed to URL.revokeObjectURL: neither handleFileChange nor
\* the Visualizer's cleanup calls it
RevokedLocators(ts, v) == {}

\* URL.createObjectURL: a locator no earlier call returned
createObjectURL(ts) == 1 + Cardinality({ i \in 1..Len(ts) : ts[i].url # 0 })

\* handleFileChange after fileToBase64 resolved: the asset is stored and
\* startAnalysis runs up to its await of the remote call
EncodeResolved(t, ctxState, bound) ==
    /\ AppAlive
    /\ t \in 1..Len(tasks)
    /\ tasks[t].pc = "encoding"
    /\ LET file == tasks[t].file
           url == createObjectURL(tasks)
           newFileData == [name |-> file.name, url |-> url,
                           base64 |-> fileToBase64(file), mimeType |-> file.type]
       IN /\ fileData' = Some(newFileData)
          /\ status' = ANALYZING
          /\ tasks' = [tasks EXCEPT ![t].pc = "analyzing", ![t].url = url,
                                    ![t].log = @ \o <<IDLE, ANALYZING>>,
                                    ![t].calls = @ + 1]
          /\ viz' = Commit(viz, UrlOf(fileData), url, isPlaying, isPlaying,
                           ctxState, bound)
    /\ UNCHANGED <<analysis, error, isPlaying, dialogOpen>>

\* the catch without its setStatus
EncodeRejectedNoStatus(t) ==
    /\ AppAlive
    /\ t \in 1..Len(tasks)
    /\ tasks[t].pc = "encoding"
    /\ error' = Some(ErrReadFailed)
    /\ tasks' = [tasks EXCEPT ![t].pc = "encodeFailed"]
    /\ UNCHANGED <<status, fileData, analysis, isPlaying, dialogOpen, viz>>

\* handleFileChange after fileToBase64 rejected (reader.onerror)
EncodeRejected(t) ==
    /\ AppAlive
    /\ t \in 1..Len(tasks)
    /\ tasks[t].pc = "encoding"
    /\ error' = Some(ErrReadFailed)
    /\ status' = ERROR
    /\ tasks' = [tasks EXCEPT ![t].pc = "encodeFailed",
                              ![t].log = Append(@, ERROR)]
    /\ UNCHANGED <<fileData, analysis, isPlaying, dialogOpen, viz>>

\* e.message || fallback
MessageOr(message, fallback) == IF message # "" THEN message ELSE fallback

\* startAnalysis after analyzeAudioWithGemini settled
AnalysisSettled(t, resp) ==
    /\ AppAlive
    /\ t \in 1..Len(tasks)
    /\ tasks[t].pc = "analyzing"
    /\ LET r == analyzeAudioWithGemini(resp) IN
       IF ~r.threw
       THEN /\ analysis' = Some(r.result)
            /\ status' = COMPLETED
            /\ tasks' = [tasks EXCEPT ![t].pc = "completed",
                                      ![t].log = Append(@, COMPLETED)]
            /\ UNCHANGED error
       ELSE /\ error' = Some(MessageOr(r.message, ErrServiceUnavailable))
            /\ status' = ERROR
            /\ tasks' = [tasks EXCEPT ![t].pc = "failed",
                                      ![t].log = Append(@, ERROR)]
            /\ UNCHANGED analysis
    /\ UNCHANGED <<fileData, isPlaying, dialogOpen, viz>>

\* togglePlay, from the button App renders when there is an asset and the
\* status is COMPLETED
togglePlay ==
    /\ AppAlive
    /\ ~IsNull(fileData)
    /\ status = COMPLETED
    /\ isPlaying \/ viz.nextRafId <= MaxFrames
    /\ isPlaying' = ~isPlaying
    /\ viz' = Commit(viz, UrlOf(fileData), UrlOf(fileData), isPlaying,
                     ~isPlaying, "suspended", TRUE)
    /\ UNCHANGED <<status, fileData, analysis, error, dialogOpen, tasks>>

\* the browser runs the frame callback registered as r
FrameTick(r) ==
    /\ r \in viz.rafQueue
    /\ viz.nextRafId <= MaxFrames
    /\ viz' = renderFrame([viz EXCEPT !.rafQueue = @ \ {r}], r.loop)
    /\ UNCHANGED <<status, fileData, analysis, error, isPlaying, dialogOpen,
                   tasks>>

\* the promise of ctx.close() settles
ContextClosed(g) ==
    /\ g \in 1..Len(viz.graphs)
    /\ viz.graphs[g].closeRequested
    /\ viz.graphs[g].state # "closed"
    /\ viz' = [viz EXCEPT !.graphs[g].state = "closed"]
    /\ UNCHANGED <<status, fileData, analysis, error, isPlaying, dialogOpen,
                   tasks>>

\* React unmounts the Visualizer, which App renders for as long as it holds
\* an asset, so with App itself: the audioUrl effect's cleanup runs, the
\* isPlaying effect has none, and no handler of App commits state afterwards
Unmount ==
    /\ viz.mounted
    /\ ~viz.tornDown
    /\ viz' = [AudioUrlCleanup(viz, viz.audioRef) EXCEPT !.tornDown = TRUE]
    /\ UNCHANGED <<status, fileData, analysis, error, isPlaying, dialogOpen,
                   tasks>>

Next ==
    \/ triggerUpload
    \/ handleFileChangeNoFile
    \/ \E file \in Files : handleFileChange(file)
    \/ \E t \in 1..MaxSelections, s \in {"suspended", "running"}, b \in BOOLEAN :
           EncodeResolved(t, s, b)
    \/ \E t \in 1..MaxSelections : EncodeRejected(t)
    \/ \E t \in 1..MaxSelections, resp \in Responses : AnalysisSettled(t, resp)
    \/ togglePlay
    \/ \E id \in 1..MaxFrames, g \in 1..MaxSelections :
           FrameTick([id |-> id, loop |-> g])
    \/ \E g \in 1..MaxSelections : ContextClosed(g)
    \/ Unmount

Spec == Init /\ [][Next]_vars

\* the analysis session alone: every file and every response, the play
\* button never pressed and the component never unmounted
NextSession ==
    \/ triggerUpload
    \/ handleFileChangeNoFile
    \/ \E file \in Files : handleFileChange(file)
    \/ \E t \in 1..MaxSelections : EncodeResolved(t, "suspended", TRUE)
    \/ \E t \in 1..MaxSelections : EncodeRejected(t)
    \/ \E t \in 1..MaxSelections, resp \in Responses : AnalysisSettled(t, resp)

SpecSession == Init /\ [][NextSession]_vars

\* a pending file read settles / a pending remote call settles
EncodeSettles ==
    \E t \in 1..MaxSelections :
        EncodeResolved(t, "suspended", TRUE) \/ EncodeRejected(t)

AnalysisSettles ==
    \E t \in 1..MaxSelections, resp \in Responses : AnalysisSettled(t, resp)

\* the session when every file read and every remote call settles
SpecSessionFair ==
    SpecSession /\ WF_vars(EncodeSettles) /\ WF_vars(AnalysisSettles)

\* the files and responses of the playback specification
PlaybackFiles == { file \in Files : file.name = "track.mp3" }
PlaybackResponses == { Fulfilled(TextFull), Rejected("") }

\* playback and rendering: every action of the Visualizer, with one audio
\* file, a fulfilled and a rejected remote call, and every AudioContext
\* created suspended
NextPlayback ==
    \/ triggerUpload
    \/ \E file \in PlaybackFiles : handleFileChange(file)
    \/ \E t \in 1..MaxSelections, b \in BOOLEAN :
           EncodeResolved(t, "suspended", b)
    \/ \E t \in 1..MaxSelections, resp \in PlaybackResponses :
           AnalysisSettled(t, resp)
    \/ togglePlay
    \/ \E id \in 1..MaxFrames, g \in 1..MaxSelections :
           FrameTick([id |-> id, loop |-> g])
    \/ \E g \in 1..MaxSelections : ContextClosed(g)
    \/ Unmount

SpecPlayback == Init /\ [][NextPlayback]_vars

TypeOK ==
    /\ status \in AnalysisStatus
    /\ isPlaying \in BOOLEAN
    /\ dialogOpen \in BOOLEAN
    /\ Len(tasks) <= MaxSelections
    /\ Len(fileData) <= 1 /\ Len(analysis) <= 1 /\ Len(error) <= 1

(* ---------------- properties of the analysis session ---------------- *)

TenMiB == 10 * 1024 * 1024

\* the file is one the validation is to refuse: over 10 MiB or not "audio/..."
OverTenMiB(file) == file.size > TenMiB

DeclaresAudio(file) ==
    /\ Len(file.type) >= 6
    /\ file.type[1] = "a" /\ file.type[2] = "u" /\ file.type[3] = "d"
    /\ file.type[4] = "i" /\ file.type[5] = "o" /\ file.type[6] = "/"

Refused(file) == OverTenMiB(file) \/ ~DeclaresAudio(file)

SessionState == <<status, analysis, error>>

\* file B, the latest selection, is being encoded and no step has set the
\* status since B was selected, while the remote call of the earlier file A
\* is pending: A's call was in flight when B was selected
SelectedDuringCall(a, b) ==
    /\ a < b /\ b = Len(tasks)
    /\ tasks[a].pc = "analyzing"
    /\ tasks[b].pc = "encoding"
    /\ status = UPLOADING

\* C1: when file A's remote call was in flight as a valid file B was
\* selected, the settling of A's call (fulfilled or rejected) leaves status,
\* result and error message as B's own steps made them.
C1_SupersededResolutionIsNoOp ==
    [][\A a \in 1..Len(tasks), b \in 1..Len(tasks), resp \in Responses :
          (SelectedDuringCall(a, b) /\ AnalysisSettled(a, resp))
              => SessionState' = SessionState]_vars

\* C2: a result is present only in status COMPLETED, and status ERROR
\* carries a non-empty error message and no result.
C2_ResultOnlyWhenCompleted ==
    /\ ~IsNull(analysis) => status = COMPLETED
    /\ status = ERROR => /\ ~IsNull(error)
                         /\ Val(error) # ""
                         /\ IsNull(analysis)

\* C3: selecting a file over 10 MiB puts the session in status ERROR with
\* the size message, and selecting a file whose type does not start with
\* "audio/" puts it in status ERROR with the unsupported-type message.
C3_RefusedFileIsErrored ==
    [][\A file \in Files :
          handleFileChange(file) =>
              /\ OverTenMiB(file) =>
                     status' = ERROR /\ error' = Some(ErrFileTooLarge)
              /\ (~OverTenMiB(file) /\ ~DeclaresAudio(file)) =>
                     status' = ERROR /\ error' = Some(ErrUnsupportedType)]_vars

\* the remote calls issued so far, and the assets constructed so far
RemoteCalls(ts) == [i \in 1..Len(ts) |-> ts[i].calls]
Assets(ts) == { i \in 1..Len(ts) : ts[i].url # 0 }

\* C4: selecting a refused file does not make the status UPLOADING, starts no
\* run, constructs no asset and issues no remote call; no run was ever
\* started for a refused file; and a run whose encoding failed has issued no
\* remote call and constructed no asset.
C4_RefusedOrUnencodedNeverCalls ==
    /\ [][\A file \in Files :
             (Refused(file) /\ handleFileChange(file)) =>
                 /\ status' = UPLOADING => status = UPLOADING
                 /\ tasks' = tasks
                 /\ fileData' = fileData]_vars
    /\ [](\A t \in 1..Len(tasks) :
             /\ ~Refused(tasks[t].file)
             /\ tasks[t].pc = "encodeFailed" =>
                    tasks[t].calls = 0 /\ tasks[t].url = 0)
    /\ [][\A t \in 1..Len(tasks) :
             EncodeRejected(t) =>
                 RemoteCalls(tasks') = RemoteCalls(tasks)
                 /\ Assets(tasks') = Assets(tasks)]_vars

\* a run whose encoding failed exists and a refused file was selected after
C4_Witness ==
    /\ \E t \in 1..Len(tasks) : tasks[t].pc = "encodeFailed"
    /\ error = Some(ErrUnsupportedType)
    /\ status = ERROR

\* the parsed object has a number property n of value x / a string property
HasNum(obj, n, x) == \E p \in obj : p.name = n /\ p.type = "number" /\ p.num = x
HasStr(obj, n, x) == \E p \in obj : p.name = n /\ p.type = "string" /\ p.str = x

\* C5: a file of at most 10 MiB (10 MiB included) with an audio type,
\* selected from IDLE with no other selection, is accepted; its run calls
\* setStatus with UPLOADING, IDLE, ANALYZING in that order, and a fulfilled
\* call with the four fields adds COMPLETED and stores exactly those fields.
C5_SoloRunPassesThroughStates ==
    /\ [][\A file \in Files :
             (~Refused(file) /\ tasks = <<>> /\ handleFileChange(file)) =>
                 /\ status = IDLE /\ status' = UPLOADING
                 /\ Len(tasks') = 1 /\ tasks'[1].file = file]_vars
    /\ [](Len(tasks) = 1 =>
             /\ status = tasks[1].log[Len(tasks[1].log)]
             /\ tasks[1].pc = "encoding" => tasks[1].log = <<UPLOADING>>
             /\ tasks[1].pc = "analyzing" =>
                    tasks[1].log = <<UPLOADING, IDLE, ANALYZING>>
             /\ tasks[1].pc = "completed" =>
                    tasks[1].log = <<UPLOADING, IDLE, ANALYZING, COMPLETED>>)
    /\ [][(Len(tasks) = 1 /\ AnalysisSettled(1, Fulfilled(TextFull))) =>
             /\ status' = COMPLETED
             /\ Cardinality(Val(analysis')) = 4
             /\ HasNum(Val(analysis'), "bpm", 128)
             /\ HasStr(Val(analysis'), "key", "A Minor")
             /\ HasStr(Val(analysis'), "mood", "soft")
             /\ HasStr(Val(analysis'), "explanation", "minor key")]_vars
    /\ [][(Len(tasks) = 1 /\ AnalysisSettled(1, Fulfilled(TextOther))) =>
             /\ status' = COMPLETED
             /\ Cardinality(Val(analysis')) = 4
             /\ HasNum(Val(analysis'), "bpm", 90)
             /\ HasStr(Val(analysis'), "key", "C Major")
             /\ HasStr(Val(analysis'), "mood", "bright")
             /\ HasStr(Val(analysis'), "explanation", "major key")]_vars

\* the file of exactly 10 MiB, selected alone, has completed with bpm 128
C5_Witness ==
    /\ Len(tasks) = 1
    /\ tasks[1].file.size = TenMiB
    /\ tasks[1].pc = "completed"
    /\ status = COMPLETED
    /\ ~IsNull(analysis)
    /\ HasNum(Val(analysis), "bpm", 128)

(* ---------------- properties of the Visualizer ---------------- *)

\* C6: once isPlaying is false and the isPlaying effect has run, no frame
\* callback is registered and no step draws while isPlaying stays false,
\* whatever was rendered or toggled before.
C6_NoDrawAfterPause ==
    /\ [](~isPlaying => viz.rafQueue = {})
    /\ [][(~isPlaying /\ ~isPlaying') => viz'.draws = viz.draws]_vars

\* playback was started, frames were drawn, and playback is off again
C6_Witness ==
    /\ ~isPlaying
    /\ Len(viz.draws) >= 2
    /\ viz.animationFrameRef # 0

\* the loop that made the latest draw
LastLoop(v) == v.draws[Len(v.draws)]

\* C7: after a graph was closed (its asset replaced, or the component torn
\* down) no draw executes for the render loop started on that graph.
C7_NoDrawAfterClose ==
    [][viz'.draws # viz.draws =>
          /\ ~viz'.tornDown
          /\ IsOpen(viz'.graphs[LastLoop(viz')])]_vars

\* C8: once the status is UPLOADING for a newly selected valid file, neither
\* the previous asset nor the previous result is live in the session.
C8_SelectionDiscardsPrevious ==
    \A b \in 1..Len(tasks) :
        (b = Len(tasks) /\ tasks[b].pc = "encoding" /\ status = UPLOADING)
            => IsNull(fileData) /\ IsNull(analysis)

ResultFields == {"bpm", "key", "mood", "explanation"}

\* the response body has no member of that name
Lacks(text, n) == \A i \in 1..Len(text) : text[i].name # n

\* C9: a fulfilled call whose body is empty or lacks one of the four fields
\* ends in status ERROR with an error message and no result.
C9_IncompleteResponseIsFailure ==
    [][\A t \in 1..Len(tasks), resp \in Responses :
          (/\ resp.ok
           /\ Len(resp.text) = 0 \/ \E n \in ResultFields : Lacks(resp.text, n)
           /\ AnalysisSettled(t, resp))
              => /\ status' = ERROR
                 /\ ~IsNull(error')
                 /\ IsNull(analysis')]_vars

\* C10: at most one graph is open, and every graph but the latest has been
\* torn down: its element halted and detached, its context asked to close.
C10_AtMostOneGraphOpen ==
    /\ Cardinality(OpenGraphs(viz)) <= 1
    /\ \A i \in 1..(Len(viz.graphs) - 1) :
           /\ viz.graphs[i].paused
           /\ viz.graphs[i].src = 0
           /\ viz.graphs[i].closeRequested \/ viz.graphs[i].state = "closed"

\* a replacement graph is open while the first one's close is still pending
C10_Witness ==
    /\ Len(viz.graphs) = 2
    /\ viz.graphs[1].closeRequested
    /\ viz.graphs[1].state # "closed"
    /\ IsOpen(viz.graphs[2])

(* ---------------- locators, remote calls and failures ---------------- *)

Unreleased == CreatedLocators(tasks) \ RevokedLocators(tasks, viz)

\* C11: a replaced asset's locator is released: at most one created locator
\* is unreleased, the one of the active asset.
C11_ReplacedLocatorReleased ==
    /\ Cardinality(Unreleased) <= 1
    /\ Unreleased \subseteq {UrlOf(fileData)}

\* C12: every constructed asset has exactly one remote call, issued once its
\* encoding has completed: a run that is still encoding or whose encoding
\* failed has none, a run with an asset has one, and no step adds a call to
\* a run that has one.
C12_OneCallPerAssetAfterEncode ==
    /\ [](\A t \in 1..Len(tasks) :
             /\ tasks[t].pc \in {"encoding", "encodeFailed"} =>
                    tasks[t].calls = 0 /\ tasks[t].url = 0
             /\ tasks[t].url # 0 <=> tasks[t].calls = 1
             /\ tasks[t].calls <= 1)
    /\ [][\A t \in 1..Len(tasks) :
             tasks'[t].calls # tasks[t].calls =>
                 /\ tasks[t].calls = 0 /\ tasks'[t].calls = 1
                 /\ tasks[t].pc = "encoding" /\ tasks'[t].url # 0
                 /\ ~IsNull(fileData') /\ Val(fileData').url = tasks'[t].url]_vars

\* two assets were constructed and both calls have settled
C12_Witness ==
    /\ Len(tasks) = 2
    /\ tasks[1].url # 0 /\ tasks[2].url # 0
    /\ tasks[1].pc = "completed" /\ tasks[2].pc = "failed"

\* the latest run b is encoding the file of the completed run a, whose
\* asset the session holds, and no step has set the status since b was
\* selected: the file was selected again after its analysis had completed
ReselectedCompleted(a, b) ==
    /\ a < b /\ b = Len(tasks)
    /\ tasks[a].pc = "completed"
    /\ tasks[b].pc = "encoding"
    /\ tasks[b].file = tasks[a].file
    /\ UrlOf(fileData) = tasks[a].url
    /\ status = UPLOADING

\* C13: selecting again the file whose analysis has completed issues no
\* further remote call.
C13_ReselectionIssuesNoCall ==
    [][\A a \in 1..Len(tasks), b \in 1..Len(tasks) :
          ReselectedCompleted(a, b) => RemoteCalls(tasks') = RemoteCalls(tasks)]_vars

\* the graph has been closed once: its cleanup has run
ClosedOnce(g) == g.paused /\ g.src = 0 /\ ~IsOpen(g)

\* the frame callbacks registered by the render loop started on graph g
FramesOf(v, g) == { r \in v.rafQueue : r.loop = g }

\* C14: closing a graph that has been closed changes nothing, and after it
\* no frame callback of that graph's render loop is registered.
C14_SecondCloseLeavesNoFrame ==
    \A g \in 1..Len(viz.graphs) :
        ClosedOnce(viz.graphs[g]) =>
            /\ AudioUrlCleanup(viz, g) = viz
            /\ FramesOf(AudioUrlCleanup(viz, g), g) = {}

\* C15: when the encoding of an accepted file fails, the status becomes
\* ERROR with a non-empty message and no asset is constructed for the file.
C15_EncodeFailureIsErrored ==
    /\ [][\A t \in 1..Len(tasks) :
             (tasks[t].pc = "encoding" /\ tasks'[t].pc = "encodeFailed") =>
                 /\ status' = ERROR
                 /\ ~IsNull(error') /\ Val(error') # ""
                 /\ tasks'[t].url = 0
                 /\ fileData' = fileData]_vars
    /\ [](\A t \in 1..Len(tasks) :
             tasks[t].pc = "encodeFailed" =>
                 /\ tasks[t].url = 0
                 /\ tasks[t].log = <<UPLOADING, ERROR>>)

\* a file's encoding failed while the status was UPLOADING for it
C15_Witness ==
    /\ Len(tasks) = 1
    /\ tasks[1].pc = "encodeFailed"
    /\ status = ERROR
    /\ error = Some(ErrReadFailed)
    /\ IsNull(fileData)

\* C16: a graph whose source could not be bound changes nothing of the
\* session beyond what the asset's own step does (status ANALYZING, result
\* and error untouched), and its teardown still runs to the end.
C16_BindFailureIsHarmless ==
    /\ [][Len(viz'.graphs) > Len(viz.graphs) =>
             (~viz'.graphs[Len(viz'.graphs)].bound =>
                 /\ status' = ANALYZING
                 /\ analysis' = analysis
                 /\ error' = error
                 /\ isPlaying' = isPlaying)]_vars
    /\ [](\A g \in 1..Len(viz.graphs) :
             (~viz.graphs[g].bound /\ (g < Len(viz.graphs) \/ viz.tornDown)) =>
                 ClosedOnce(viz.graphs[g]))

\* an unbound graph was replaced and its context has closed
C16_Witness ==
    /\ Len(viz.graphs) = 2
    /\ ~viz.graphs[1].bound
    /\ viz.graphs[1].state = "closed"
    /\ status = COMPLETED

\* C17: at most one frame callback is registered at any time.
C17_AtMostOneFrameCallback == Cardinality(viz.rafQueue) <= 1

\* playback was started, stopped and started again, and a loop is running
C17_Witness ==
    /\ isPlaying
    /\ Cardinality(viz.rafQueue) = 1
    /\ Len(viz.draws) >= 2
    /\ \E r \in viz.rafQueue : r.id = viz.animationFrameRef

\* C18: isPlaying is true only while the status is COMPLETED.
C18_PlayingOnlyWhenCompleted == isPlaying => status = COMPLETED

\* a file read or a remote call is pending
Unsettled == \E t \in 1..Len(tasks) : tasks[t].pc \in {"encoding", "analyzing"}

Final == {COMPLETED, ERROR}

\* C19: when every file read and remote call settles, the session does not
\* stay in UPLOADING or ANALYZING: once nothing is pending after a selection
\* the status is COMPLETED or ERROR, and that point is always reached.
C19_SessionSettles ==
    /\ []((tasks # <<>> /\ ~Unsettled) => status \in Final)
    /\ (status \in {UPLOADING, ANALYZING}) ~> (~Unsettled /\ status \in Final)

\* two selections were accepted and both have settled
C19_Witness ==
    /\ Len(tasks) = 2
    /\ ~Unsettled
    /\ status \in Final

====
